---- MODULE Spec2Model ----
(***************************************************************************)
(* Model of generate_items.py, the fantasy item catalog generator.         *)
(*                                                                         *)
(* Strings that the program inspects (names, ids, vocabulary tokens) are   *)
(* sequences of one-character strings, so that slugification and the       *)
(* substring tests of the validators are computed, not assumed.            *)
(*                                                                         *)
(* The shared random source is a position on the generator's output cycle  *)
(* cyc: random.seed(s) moves to the position the seed determines, every    *)
(* random call reads the value at the position and advances by one.  The   *)
(* cycle is drawn at Init from all cycles of length CycleLen over          *)
(* StreamVals; a value u stands for the float u / Mille in [0, 1).         *)
(***************************************************************************)
EXTENDS Integers, Sequences, FiniteSets, TLC

\* ---------------------------------------------------------------- bounds
\* Largest per-category count a generate call is given.
MaxN == 3
\* Number of generate calls made in one process.
MaxCalls == 2
\* Length of the generator's output cycle.
CycleLen == 3
\* Resolution of random(): a drawn value u stands for u / Mille.
Mille == 1000
\* Longest string handed to to_id when it is applied on its own.
MaxLen == 4

\* Values the generator's cycle is made of (u / Mille: 0.0, 0.5, 0.999).
StreamVals == {0, 500, 999}
\* Seeds a generate call is given (RNG_SEED and its successor).
Seeds == {424242, 424243}
\* Per-category counts a generate call is given.
Counts == {0, MaxN}
\* Characters of the strings to_id is applied to on its own.
Alphabet == {"A", "b", "7", " ", "'", "_", "-"}

\* -------------------------------------------------------------------- state
VARIABLES
    cyc,          \* the generator's output cycle: position -> value
    rngPos,       \* state of the shared random source: its position on cyc
    used_names,   \* _used_names, the module-level set of issued names
    armor_cores,  \* ARMOR_CORES, the armor name-core table
    pc,           \* where the process is: "idle", inside generate (the
                  \* category being built), or "aborted"
    cfg,          \* the GenConfig of the current (or last) generate call
    doc,          \* the category lists built so far by the current call
    returned,     \* the documents generate has returned, in call order
    calls,        \* the number of generate calls made so far
    events,       \* what the current call has done so far: "seed", then
                  \* the category of every builder call
    used_at_start,\* _used_names as the current call found it
    last,         \* what the last builder call did (retries, outcome)
    probe         \* the last direct call of a helper: [op, in, out]

vars == <<cyc, rngPos, used_names, armor_cores, pc, cfg, doc, returned, calls, events,
          used_at_start, last, probe>>

\* ------------------------------------------------------- program constants
RNG_SEED == 424242
\* unique_name: retries before a colliding name is accepted.
MaxTries == 20
\* unique_name: largest numeric disambiguator.
MaxDisambig == 999
\* armor_item: re-draws of a name that fails the vocabulary check.
ArmorRetries == 5

RARITY_ORDER == <<"common", "uncommon", "rare", "epic", "legendary">>
\* RARITY_MULT in tenths: 1.0, 1.5, 2.5, 4.0, 6.5.
RARITY_MULT == [common |-> 10, uncommon |-> 15, rare |-> 25, epic |-> 40, legendary |-> 65]
RARITY_COLORS == [common |-> "#FFFFFF", uncommon |-> "#00FF00", rare |-> "#0080FF",
                  epic |-> "#8000FF", legendary |-> "#FF8000"]

\* ------------------------------------------------------------------ strings
UpperCase == <<"A","B","C","D","E","F","G","H","I","J","K","L","M",
               "N","O","P","Q","R","S","T","U","V","W","X","Y","Z">>
LowerCase == <<"a","b","c","d","e","f","g","h","i","j","k","l","m",
               "n","o","p","q","r","s","t","u","v","w","x","y","z">>
Digits == <<"0","1","2","3","4","5","6","7","8","9">>

Range(f) == {f[i] : i \in DOMAIN f}

\* str.lower() on one character.
LowerChar(c) ==
    IF \E i \in DOMAIN UpperCase : UpperCase[i] = c
    THEN LowerCase[CHOOSE i \in DOMAIN UpperCase : UpperCase[i] = c]
    ELSE c

\* str.lower()
Lower(s) == [i \in 1..Len(s) |-> LowerChar(s[i])]

\* str(n) for n >= 0: the decimal digits.
RECURSIVE Str(_)
Str(n) == IF n < 10 THEN <<Digits[n + 1]>>
          ELSE Str(n \div 10) \o <<Digits[(n % 10) + 1]>>

\* `tok in s`: tok is a contiguous substring of s.
Contains(s, tok) ==
    \E i \in 0..(Len(s) - Len(tok)) : SubSeq(s, i + 1, i + Len(tok)) = tok

\* any(tok in low for tok in toks)
AnyTokIn(low, toks) == \E k \in DOMAIN toks : Contains(low, toks[k])

\* s.strip(chars): drop leading and trailing characters of the set.
RECURSIVE LStrip(_, _)
LStrip(s, chars) ==
    IF s # <<>> /\ Head(s) \in chars THEN LStrip(Tail(s), chars) ELSE s
RECURSIVE RStrip(_, _)
RStrip(s, chars) ==
    IF s # <<>> /\ s[Len(s)] \in chars THEN RStrip(SubSeq(s, 1, Len(s) - 1), chars) ELSE s
Strip(s, chars) == RStrip(LStrip(s, chars), chars)

\* s.replace(c, "")
Remove(s, c) == SelectSeq(s, LAMBDA x : x # c)

SlugChars == Range(LowerCase) \cup Range(Digits)
Whitespace == {" "}

\* re.sub(r"[^a-z0-9]+", "_", s): every maximal run of characters outside
\* a-z0-9 becomes one "_" (inRun: the previous character was in such a run).
RECURSIVE SubNonSlug(_, _)
SubNonSlug(s, inRun) ==
    IF s = <<>> THEN <<>>
    ELSE IF Head(s) \notin SlugChars
         THEN (IF inRun THEN <<>> ELSE <<"_">>) \o SubNonSlug(Tail(s), TRUE)
         ELSE <<Head(s)>> \o SubNonSlug(Tail(s), FALSE)

\* re.sub(r"_+", "_", s): every maximal run of "_" becomes one "_".
RECURSIVE SubUnderscores(_, _)
SubUnderscores(s, inRun) ==
    IF s = <<>> THEN <<>>
    ELSE IF Head(s) = "_"
         THEN (IF inRun THEN <<>> ELSE <<"_">>) \o SubUnderscores(Tail(s), TRUE)
         ELSE <<Head(s)>> \o SubUnderscores(Tail(s), FALSE)

\* to_id without its last step, the strip of leading and trailing underscores.
to_id_nostrip(name) ==
    LET s1 == Remove(Lower(Strip(name, Whitespace)), "'")
        s2 == SubNonSlug(s1, FALSE)
    IN  SubUnderscores(s2, FALSE)

to_id(name) ==
    LET s1 == Remove(Lower(Strip(name, Whitespace)), "'")
        s2 == SubNonSlug(s1, FALSE)
    IN  Strip(SubUnderscores(s2, FALSE), {"_"})

\* ------------------------------------------------------ shared random source
\* The value the generator yields at position p (p counts on from rngPos).
U(p) == cyc[p % CycleLen]
\* random.random() < pm / 1000
RandomLt(p, pm) == U(p) * 1000 < pm * Mille
\* the uniform index below n that randint and choice derive from one value
RandBelow(p, n) == (U(p) * n) \div Mille
\* random.randint(a, b)
RandInt(p, a, b) == a + RandBelow(p, b - a + 1)
\* random.choice(L)
Choice(p, L) == L[1 + RandBelow(p, Len(L))]
\* random.seed(s): the position the seed determines.
SeedPos(s) == s % CycleLen

\* ------------------------------------------------------------- rarity model
\* RARITY_ORDER.index(r)
RarityIndex(r) == (CHOOSE i \in DOMAIN RARITY_ORDER : RARITY_ORDER[i] = r) - 1

\* round(n / d) as Python 3 rounds: to nearest, ties to even.
RoundHalfEven(n, d) ==
    LET q == n \div d
        m == n % d
    IN  IF 2 * m < d THEN q
        ELSE IF 2 * m > d THEN q + 1
        ELSE IF q % 2 = 0 THEN q ELSE q + 1

pick_rarity(p) ==
    IF RandomLt(p, 450) THEN "common"
    ELSE IF RandomLt(p, 750) THEN "uncommon"
    ELSE IF RandomLt(p, 920) THEN "rare"
    ELSE IF RandomLt(p, 985) THEN "epic"
    ELSE "legendary"

\* random.choices(RARITY_ORDER, weights=[45,30,18,6,1])[0]: one value, placed
\* in the cumulative weights 45, 75, 93, 99, 100.
pick_material_rarity(p) ==
    IF RandomLt(p, 450) THEN "common"
    ELSE IF RandomLt(p, 750) THEN "uncommon"
    ELSE IF RandomLt(p, 930) THEN "rare"
    ELSE IF RandomLt(p, 990) THEN "epic"
    ELSE "legendary"

\* The dict literal draws all five bands, in order, and r selects one:
\* five values are consumed from position p.
level_for_rarity_bug(r, p) ==
    [common |-> RandInt(p, 1, 4), uncommon |-> RandInt(p + 1, 5, 8),
     rare |-> RandInt(p + 2, 8, 12), epic |-> RandInt(p + 3, 13, 17),
     legendary |-> RandInt(p + 4, 18, 20)][r]

level_for_rarity(r, p) ==
    [common |-> RandInt(p, 1, 4), uncommon |-> RandInt(p + 1, 5, 8),
     rare |-> RandInt(p + 2, 9, 12), epic |-> RandInt(p + 3, 13, 17),
     legendary |-> RandInt(p + 4, 18, 20)][r]

stat_bonus(r) == RoundHalfEven(RARITY_MULT[r], 10)

\* one value consumed
maybe_bonus(r, p) == IF RandomLt(p, 500) THEN stat_bonus(r) ELSE 0

\* five values consumed, as in level_for_rarity
crit_chance(r, p) ==
    [common |-> RandInt(p, 3, 4), uncommon |-> RandInt(p + 1, 5, 7),
     rare |-> RandInt(p + 2, 8, 10), epic |-> RandInt(p + 3, 10, 12),
     legendary |-> RandInt(p + 4, 12, 15)][r]

crit_damage(r) == 120 + RoundHalfEven(10 * RARITY_MULT[r], 10)

\* int(base + random.randint(0, min_v)), base = min_v + (max_v - min_v) * idx / 4;
\* every quantity is >= 0, so int() is the floor. One value consumed.
gold_value(r, min_v, max_v, p) ==
    (4 * min_v + (max_v - min_v) * RarityIndex(r)) \div 4 + RandInt(p, 0, min_v)

\* one value consumed unless r is common
elem_res(r, p) ==
    IF r = "common" THEN [val |-> 0, pos |-> p]
    ELSE IF r = "uncommon" THEN [val |-> Choice(p, <<0, 5>>), pos |-> p + 1]
    ELSE IF r = "rare" THEN [val |-> Choice(p, <<5, 10, 15>>), pos |-> p + 1]
    ELSE IF r = "epic" THEN [val |-> Choice(p, <<10, 15, 20>>), pos |-> p + 1]
    ELSE [val |-> Choice(p, <<15, 20, 25>>), pos |-> p + 1]

\* ------------------------------------------------------------------ lexicon
\* The tables below hold a few entries of each table of the program, in the
\* program's order.
PFX_COMMON == <<<<"O","a","k">>, <<"S","u","n">>>>
SUFFIX_FLAVOR == <<<<" ","o","f"," ","D","a","w","n">>, <<" ","o","f"," ","D","u","s","k">>>>

WEAPON_NAME_CORES ==
    <<[core |-> <<"A","x","e">>, wtype |-> <<"a","x","e">>],
      [core |-> <<"W","a","r","a","x","e">>, wtype |-> <<"a","x","e">>],
      [core |-> <<"B","o","w">>, wtype |-> <<"b","o","w">>]>>
\* The token table with "bow" registered for the crossbow only.
TYPE_TO_WEAPON_TOKENS_bow_missing(t) ==
    IF t = <<"a","x","e">> THEN <<<<"a","x","e">>, <<"w","a","r","a","x","e">>>>
    ELSE IF t = <<"b","o","w">> THEN <<<<"c","r","o","s","s","b","o","w">>>>
    ELSE <<>>

\* TYPE_TO_WEAPON_TOKENS.get(t, [])
TYPE_TO_WEAPON_TOKENS(t) ==
    IF t = <<"a","x","e">> THEN <<<<"a","x","e">>, <<"w","a","r","a","x","e">>>>
    ELSE IF t = <<"b","o","w">> THEN <<<<"b","o","w">>>>
    ELSE <<>>
WEAPON_TOKENS_FLAT == <<<<"a","x","e">>, <<"b","o","w">>, <<"w","a","r","a","x","e">>>>

ARMOR_CORES == <<<<"M","a","i","l">>, <<"W","a","r"," ","A","r","m","o","r">>>>
ARMOR_TOKENS == <<<<"a","r","m","o","r">>, <<"m","a","i","l">>, <<"w","a","r"," ","a","r","m","o","r">>>>
\* An armor table edited to hold a core that no armor token occurs in.
ARMOR_CORES_UNREGISTERED == <<<<"M","a","i","l">>, <<"R","o","b","e">>>>

ACCESSORY_NAME_CORES ==
    <<[core |-> <<"R","i","n","g">>, atype |-> <<"r","i","n","g">>],
      [core |-> <<"S","a","s","h">>, atype |-> <<"s","a","s","h">>]>>

CONSUMABLE_TEMPLATES ==
    <<[base |-> <<"H","e","a","l","t","h"," ","P","o","t","i","o","n">>, kind |-> "heal"],
      [base |-> <<"M","a","n","a"," ","P","o","t","i","o","n">>, kind |-> "mana_restore"],
      [base |-> <<"E","l","i","x","i","r"," ","o","f"," ","W","i","s","d","o","m">>, kind |-> "stat_boost"],
      [base |-> <<"P","o","t","i","o","n"," ","o","f"," ","S","w","i","f","t","n","e","s","s">>, kind |-> "speed_boost"]>>
CONSUMABLE_KEYWORDS ==
    <<<<"p","o","t","i","o","n">>, <<"e","l","i","x","i","r">>, <<"d","r","a","u","g","h","t">>, <<"s","c","r","o","l","l">>, <<"t","o","n","i","c">>>>

MATERIAL_TYPES == <<<<"m","e","t","a","l">>, <<"w","o","o","d">>, <<"g","e","m">>>>
MATERIAL_CORES == <<<<"B","a","r">>, <<"O","r","e">>, <<"G","e","m">>>>
MATERIAL_TOKENS == <<<<"b","a","r">>, <<"o","r","e">>, <<"g","e","m">>>>

CRAFT_POOL == <<<<"i","r","o","n","_","i","n","g","o","t">>,
                <<"p","u","r","e","_","w","a","t","e","r">>,
                <<"o","a","k","_","w","o","o","d">>>>
PURE_WATER == <<"p","u","r","e","_","w","a","t","e","r">>

SPECIAL_EFFECT_POOL == <<"bleed_on_hit", "elemental_affinity:fire", "thorns">>
\* e.startswith("elemental_affinity")
AffinityEffects == {"elemental_affinity:fire", "elemental_affinity:ice", "elemental_affinity:lightning"}
OnHitEffects == {"bleed_on_hit", "burn_on_hit", "freeze_on_hit", "shock_on_hit"}

ELEMENTS == <<"fire", "ice", "lightning", "poison">>
CORE_ATTRIBUTES == <<"strength", "dexterity", "constitution", "intelligence", "wisdom", "charisma">>
EFFECT_KINDS == {"heal", "mana_restore", "stat_boost", "speed_boost"}

TEXTURES_ROOT == <<"r","e","s",":","/","/","a","s","s","e","t","s","/","t","e","x","t","u","r","e","s","/">>
SUIT == <<"s","u","i","t">>
POTION == <<"p","o","t","i","o","n">>
RCP == <<"r","c","p","_">>

\* ------------------------------------------------- the tables, whole
\* The name tables as the program has them; the tables above are the parts of
\* them the builders of the model draw from.

LEXICON_WEAPON_NAME_CORES ==
    <<
      [core |-> <<"S","w","o","r","d">>, wtype |-> <<"s","w","o","r","d">>],
      [core |-> <<"B","l","a","d","e">>, wtype |-> <<"s","w","o","r","d">>],
      [core |-> <<"S","a","b","e","r">>, wtype |-> <<"s","w","o","r","d">>],
      [core |-> <<"C","u","t","l","a","s","s">>, wtype |-> <<"s","w","o","r","d">>],
      [core |-> <<"C","l","a","y","m","o","r","e">>, wtype |-> <<"s","w","o","r","d">>],
      [core |-> <<"A","x","e">>, wtype |-> <<"a","x","e">>],
      [core |-> <<"W","a","r","a","x","e">>, wtype |-> <<"a","x","e">>],
      [core |-> <<"M","a","c","e">>, wtype |-> <<"m","a","c","e">>],
      [core |-> <<"H","a","m","m","e","r">>, wtype |-> <<"m","a","c","e">>],
      [core |-> <<"M","a","u","l">>, wtype |-> <<"m","a","c","e">>],
      [core |-> <<"D","a","g","g","e","r">>, wtype |-> <<"d","a","g","g","e","r">>],
      [core |-> <<"D","i","r","k">>, wtype |-> <<"d","a","g","g","e","r">>],
      [core |-> <<"S","p","e","a","r">>, wtype |-> <<"s","p","e","a","r">>],
      [core |-> <<"H","a","l","b","e","r","d">>, wtype |-> <<"p","o","l","e","a","r","m">>],
      [core |-> <<"G","l","a","i","v","e">>, wtype |-> <<"p","o","l","e","a","r","m">>],
      [core |-> <<"L","a","n","c","e">>, wtype |-> <<"l","a","n","c","e">>],
      [core |-> <<"B","o","w">>, wtype |-> <<"b","o","w">>],
      [core |-> <<"C","r","o","s","s","b","o","w">>, wtype |-> <<"c","r","o","s","s","b","o","w">>],
      [core |-> <<"S","t","a","f","f">>, wtype |-> <<"s","t","a","f","f">>],
      [core |-> <<"S","c","y","t","h","e">>, wtype |-> <<"s","c","y","t","h","e">>]
    >>

LEXICON_TYPE_TO_WEAPON_TOKENS ==
    <<
      [wtype |-> <<"s","w","o","r","d">>, tokens |-> <<<<"s","w","o","r","d">>, <<"b","l","a","d","e">>, <<"s","a","b","e","r">>, <<"c","u","t","l","a","s","s">>, <<"c","l","a","y","m","o","r","e">>>>],
      [wtype |-> <<"a","x","e">>, tokens |-> <<<<"a","x","e">>, <<"w","a","r","a","x","e">>>>],
      [wtype |-> <<"m","a","c","e">>, tokens |-> <<<<"m","a","c","e">>, <<"h","a","m","m","e","r">>, <<"m","a","u","l">>>>],
      [wtype |-> <<"d","a","g","g","e","r">>, tokens |-> <<<<"d","a","g","g","e","r">>, <<"d","i","r","k">>>>],
      [wtype |-> <<"s","p","e","a","r">>, tokens |-> <<<<"s","p","e","a","r">>>>],
      [wtype |-> <<"l","a","n","c","e">>, tokens |-> <<<<"l","a","n","c","e">>>>],
      [wtype |-> <<"p","o","l","e","a","r","m">>, tokens |-> <<<<"h","a","l","b","e","r","d">>, <<"g","l","a","i","v","e">>>>],
      [wtype |-> <<"b","o","w">>, tokens |-> <<<<"b","o","w">>>>],
      [wtype |-> <<"c","r","o","s","s","b","o","w">>, tokens |-> <<<<"c","r","o","s","s","b","o","w">>>>],
      [wtype |-> <<"s","t","a","f","f">>, tokens |-> <<<<"s","t","a","f","f">>>>],
      [wtype |-> <<"s","c","y","t","h","e">>, tokens |-> <<<<"s","c","y","t","h","e">>>>]
    >>

LEXICON_ARMOR_CORES ==
    <<
      <<"A","r","m","o","r">>, <<"M","a","i","l">>,
      <<"P","l","a","t","e"," ","A","r","m","o","r">>,
      <<"S","c","a","l","e"," ","A","r","m","o","r">>,
      <<"B","r","i","g","a","n","d","i","n","e">>,
      <<"L","e","a","t","h","e","r"," ","A","r","m","o","r">>,
      <<"C","h","a","i","n","m","a","i","l"," ","A","r","m","o","r">>,
      <<"D","r","a","g","o","n","s","c","a","l","e"," ","A","r","m","o","r">>,
      <<"B","a","t","t","l","e"," ","A","r","m","o","r">>,
      <<"W","a","r"," ","A","r","m","o","r">>
    >>

LEXICON_ARMOR_TOKENS ==
    <<
      <<"a","r","m","o","r">>, <<"m","a","i","l">>,
      <<"b","r","i","g","a","n","d","i","n","e">>,
      <<"d","r","a","g","o","n","s","c","a","l","e">>, <<"w","a","r"," ","a","r","m","o","r">>,
      <<"p","l","a","t","e"," ","a","r","m","o","r">>,
      <<"s","c","a","l","e"," ","a","r","m","o","r">>, <<"c","h","a","i","n","m","a","i","l">>
    >>

LEXICON_ACCESSORY_NAME_CORES ==
    <<
      [core |-> <<"R","i","n","g">>, atype |-> <<"r","i","n","g">>],
      [core |-> <<"A","m","u","l","e","t">>, atype |-> <<"a","m","u","l","e","t">>],
      [core |-> <<"C","h","a","r","m">>, atype |-> <<"c","h","a","r","m">>],
      [core |-> <<"B","a","n","d">>, atype |-> <<"b","a","n","d">>],
      [core |-> <<"B","r","o","o","c","h">>, atype |-> <<"b","r","o","o","c","h">>],
      [core |-> <<"T","a","l","i","s","m","a","n">>, atype |-> <<"t","a","l","i","s","m","a","n">>],
      [core |-> <<"C","i","r","c","l","e","t">>, atype |-> <<"c","i","r","c","l","e","t">>],
      [core |-> <<"P","e","n","d","a","n","t">>, atype |-> <<"p","e","n","d","a","n","t">>],
      [core |-> <<"B","r","a","c","e","l","e","t">>, atype |-> <<"b","r","a","c","e","l","e","t">>],
      [core |-> <<"A","n","k","l","e","t">>, atype |-> <<"a","n","k","l","e","t">>],
      [core |-> <<"S","a","s","h">>, atype |-> <<"s","a","s","h">>]
    >>

LEXICON_CONSUMABLE_BASES ==
    <<
      <<"H","e","a","l","t","h"," ","P","o","t","i","o","n">>,
      <<"G","r","e","a","t","e","r"," ","H","e","a","l","t","h"," ","P","o","t","i","o","n">>,
      <<"M","a","n","a"," ","P","o","t","i","o","n">>,
      <<"E","l","i","x","i","r"," ","o","f"," ","S","t","r","e","n","g","t","h">>,
      <<"E","l","i","x","i","r"," ","o","f"," ","D","e","x","t","e","r","i","t","y">>,
      <<"E","l","i","x","i","r"," ","o","f"," ","C","o","n","s","t","i","t","u","t","i","o","n">>,
      <<"E","l","i","x","i","r"," ","o","f"," ","I","n","t","e","l","l","i","g","e","n","c","e">>,
      <<"E","l","i","x","i","r"," ","o","f"," ","W","i","s","d","o","m">>,
      <<"E","l","i","x","i","r"," ","o","f"," ","C","h","a","r","i","s","m","a">>,
      <<"P","o","t","i","o","n"," ","o","f"," ","S","w","i","f","t","n","e","s","s">>
    >>

LEXICON_MATERIAL_CORES ==
    <<
      <<"I","n","g","o","t">>, <<"B","a","r">>, <<"O","r","e">>, <<"S","h","a","r","d">>,
      <<"C","r","y","s","t","a","l">>, <<"G","e","m">>, <<"T","h","r","e","a","d">>,
      <<"F","i","b","e","r">>, <<"S","i","l","k">>, <<"H","e","a","r","t","w","o","o","d">>,
      <<"W","o","o","d">>, <<"P","l","a","n","k">>, <<"P","e","l","t">>,
      <<"L","e","a","t","h","e","r">>, <<"F","e","a","t","h","e","r">>, <<"B","o","n","e">>,
      <<"S","c","a","l","e">>, <<"P","o","w","d","e","r">>, <<"R","e","s","i","n">>,
      <<"H","e","r","b">>, <<"B","l","o","s","s","o","m">>, <<"R","o","o","t">>,
      <<"S","e","e","d">>, <<"E","s","s","e","n","c","e">>, <<"C","o","r","e">>
    >>

LEXICON_MATERIAL_TOKENS ==
    <<
      <<"i","n","g","o","t">>, <<"b","a","r">>, <<"o","r","e">>, <<"s","h","a","r","d">>,
      <<"c","r","y","s","t","a","l">>, <<"g","e","m">>, <<"t","h","r","e","a","d">>,
      <<"f","i","b","e","r">>, <<"s","i","l","k">>, <<"h","e","a","r","t","w","o","o","d">>,
      <<"w","o","o","d">>, <<"p","l","a","n","k">>, <<"p","e","l","t">>,
      <<"l","e","a","t","h","e","r">>, <<"f","e","a","t","h","e","r">>, <<"b","o","n","e">>,
      <<"s","c","a","l","e">>, <<"p","o","w","d","e","r">>, <<"r","e","s","i","n">>,
      <<"h","e","r","b">>, <<"b","l","o","s","s","o","m">>, <<"r","o","o","t">>,
      <<"s","e","e","d">>, <<"e","s","s","e","n","c","e">>, <<"c","o","r","e">>
    >>

\* TYPE_TO_WEAPON_TOKENS.get(t, []) on the whole table.
LEXICON_TOKENS_OF(t) ==
    IF \E k \in DOMAIN LEXICON_TYPE_TO_WEAPON_TOKENS : LEXICON_TYPE_TO_WEAPON_TOKENS[k].wtype = t
    THEN LEXICON_TYPE_TO_WEAPON_TOKENS[
             CHOOSE k \in DOMAIN LEXICON_TYPE_TO_WEAPON_TOKENS :
                 LEXICON_TYPE_TO_WEAPON_TOKENS[k].wtype = t].tokens
    ELSE <<>>

\* ------------------------------------------------------------------ helpers
shops_for(category, rarity) ==
    LET low == rarity \in {"common", "uncommon"}
    IN  IF category = "weapon"
        THEN (IF low THEN <<"blacksmith", "general_store">> ELSE <<"blacksmith", "rare_goods">>)
        ELSE IF category = "armor"
        THEN (IF low THEN <<"general_store", "blacksmith">> ELSE <<"blacksmith", "rare_goods">>)
        ELSE IF category = "accessory"
        THEN (IF low THEN <<"general_store", "magic_shop">> ELSE <<"magic_shop", "rare_goods">>)
        ELSE IF category = "consumable"
        THEN (IF low THEN <<"general_store", "alchemist">> ELSE <<"alchemist", "rare_goods">>)
        ELSE <<"general_store">>

\* f"res://assets/textures/{category}/{_id}.png"
img_path(category, id) ==
    TEXTURES_ROOT \o category \o <<"/">> \o id \o <<".","p","n","g">>

\* The while loop of unique_name: n is the candidate, tries the retries made.
\* The loop of unique_name with one pass more.
RECURSIVE unique_name_loop_one_more(_, _, _, _, _)
unique_name_loop_one_more(base, n, tries, used, p) ==
    IF n \in used /\ tries <= MaxTries
    THEN unique_name_loop_one_more(base, base \o <<" ">> \o Str(RandInt(p, 0, MaxDisambig)),
                                   tries + 1, used, p + 1)
    ELSE [name |-> n, used |-> used \cup {n}, pos |-> p, tries |-> tries,
          duplicate |-> n \in used]

RECURSIVE unique_name_loop(_, _, _, _, _)
unique_name_loop(base, n, tries, used, p) ==
    IF n \in used /\ tries < MaxTries
    THEN unique_name_loop(base, base \o <<" ">> \o Str(RandInt(p, 0, MaxDisambig)),
                          tries + 1, used, p + 1)
    ELSE [name |-> n, used |-> used \cup {n}, pos |-> p, tries |-> tries,
          duplicate |-> n \in used]

\* unique_name(base, allow_suffix, allow_flavor) with _used_names = used and
\* the random source at p: the name, the set and the position afterwards.
unique_name(base, allow_suffix, allow_flavor, used, p) ==
    LET draws == allow_flavor /\ allow_suffix
        flavored == draws /\ RandomLt(p, 500)
        name == IF flavored THEN base \o Choice(p + 1, SUFFIX_FLAVOR) ELSE base
        q == IF flavored THEN p + 2 ELSE IF draws THEN p + 1 ELSE p
    IN  unique_name_loop(base, name, 0, used, q)

\* One pass of the loop of maybe_effects: an effect is [tag, pct, secs] for
\* the string f"{tag}:{pct}%:{secs}s" (pct, secs = 0: the part is absent).
effect_entry(r, p) ==
    LET e == Choice(p, SPECIAL_EFFECT_POOL)
        m == RARITY_MULT[r]
    IN  IF e \in AffinityEffects
        THEN [eff |-> [tag |-> e, pct |-> 5 + (5 * m) \div 10, secs |-> 0], pos |-> p + 1]
        ELSE IF e \in OnHitEffects
        THEN [eff |-> [tag |-> e, pct |-> 10 + (5 * m) \div 10, secs |-> RandInt(p + 1, 3, 6)],
              pos |-> p + 2]
        ELSE IF e = "clarity:spell_focus"
        THEN [eff |-> [tag |-> e, pct |-> 5 + (5 * m) \div 10, secs |-> 0], pos |-> p + 1]
        ELSE [eff |-> [tag |-> e, pct |-> 0, secs |-> 0], pos |-> p + 1]

RECURSIVE effects_loop(_, _, _)
effects_loop(r, count, p) ==
    IF count = 0 THEN [effects |-> <<>>, pos |-> p]
    ELSE LET x == effect_entry(r, p)
             rest == effects_loop(r, count - 1, x.pos)
         IN  [effects |-> <<x.eff>> \o rest.effects, pos |-> rest.pos]

\* maybe_effects counting rare among the tiers that get a second effect.
maybe_effects_rare_two(r, p) ==
    IF RandomLt(p, 330) \/ r \in {"rare", "epic", "legendary"}
    THEN effects_loop(r, 1 + (IF r \in {"rare", "epic", "legendary"} THEN 1 ELSE 0), p + 1)
    ELSE [effects |-> <<>>, pos |-> p + 1]

maybe_effects(r, p) ==
    IF RandomLt(p, 330) \/ r \in {"rare", "epic", "legendary"}
    THEN effects_loop(r, 1 + (IF r \in {"epic", "legendary"} THEN 1 ELSE 0), p + 1)
    ELSE [effects |-> <<>>, pos |-> p + 1]

RECURSIVE craft_loop(_, _, _, _, _)
craft_loop(r, k, liquid, mats, p) ==
    IF k = 0 THEN [mats |-> mats, pos |-> p]
    ELSE LET m0 == Choice(p, CRAFT_POOL)
             rolls == liquid /\ m0 # PURE_WATER
             mat == IF rolls /\ RandomLt(p + 1, 330) THEN PURE_WATER ELSE m0
             key == to_id(mat)
             qty == 1 + RarityIndex(r) \div 2
         IN  craft_loop(r, k - 1, liquid,
                        [x \in DOMAIN mats \cup {key} |-> IF x = key THEN qty ELSE mats[x]],
                        IF rolls THEN p + 2 ELSE p + 1)

craft_mats(r, min_n, max_n, liquid, p) ==
    craft_loop(r, RandInt(p, min_n, max_n), liquid, <<>>, p + 1)

STAT_KEYS == {"health", "mana"} \cup Range(CORE_ATTRIBUTES)

\* The effect record build_effect starts from: everything zero.
effect_base_no_mana(kind) ==
    [type |-> kind, value |-> 0, duration |-> 0, instant |-> TRUE,
     stats_affected |-> [a \in STAT_KEYS \ {"mana"} |-> 0]]

effect_base(kind) ==
    [type |-> kind, value |-> 0, duration |-> 0, instant |-> TRUE,
     stats_affected |-> [a \in STAT_KEYS |-> 0]]

build_effect(kind, r, p) ==
    LET eff == effect_base(kind)
    IN  IF kind = "heal"
        THEN LET v == [common |-> 120, uncommon |-> 350, rare |-> 600, epic |-> 900,
                       legendary |-> 1400][r]
             IN  [eff |-> [eff EXCEPT !.value = v, !.stats_affected["health"] = v], pos |-> p]
        ELSE IF kind = "mana_restore"
        THEN LET v == [common |-> 100, uncommon |-> 200, rare |-> 350, epic |-> 500,
                       legendary |-> 750][r]
             IN  [eff |-> [eff EXCEPT !.value = v, !.stats_affected["mana"] = v], pos |-> p]
        ELSE IF kind = "stat_boost"
        THEN LET dur == [common |-> 300, uncommon |-> 300, rare |-> 600, epic |-> 900,
                         legendary |-> 1200][r]
                 amt == [common |-> 1, uncommon |-> 2, rare |-> 3, epic |-> 4,
                         legendary |-> 5][r]
                 which == Choice(p, CORE_ATTRIBUTES)
             IN  [eff |-> [eff EXCEPT !.duration = dur, !.instant = FALSE,
                                      !.stats_affected[which] = amt],
                  pos |-> p + 1]
        ELSE IF kind = "speed_boost"
        THEN [eff |-> [eff EXCEPT
                         !.duration = [common |-> 180, uncommon |-> 180, rare |-> 300,
                                       epic |-> 420, legendary |-> 420][r],
                         !.instant = FALSE,
                         !.value = [common |-> 15, uncommon |-> 20, rare |-> 25,
                                    epic |-> 30, legendary |-> 35][r]],
              pos |-> p]
        ELSE [eff |-> eff, pos |-> p]

\* ----------------------------------------------------------------- builders
\* Every builder takes _used_names (used) and the position of the random
\* source (p) and yields the item, the set and the position afterwards, and
\* ok: whether its final assertions pass.

name_weapon(used, p) ==
    LET c == Choice(p, WEAPON_NAME_CORES)
        base == Choice(p + 1, PFX_COMMON) \o <<" ">> \o c.core
        un == unique_name(base, TRUE, TRUE, used, p + 2)
    IN  [name |-> un.name, subtype |-> c.wtype, used |-> un.used, pos |-> un.pos,
         tries |-> un.tries, duplicate |-> un.duplicate]

\* weapon_item up to its validation (ok is set by weapon_item).
weapon_record(used, p) ==
    LET r == pick_rarity(p)
        nm == name_weapon(used, p + 1)
        id == to_id(nm.name)
        q == nm.pos
        base_atk == RandInt(q, 10, 20)
        atk == RoundHalfEven(base_atk * RARITY_MULT[r], 10) + RandInt(q + 1, 0, 3)
        fx == maybe_effects(r, q + 13)
        cm == craft_mats(r, 2, 4, FALSE, fx.pos + 2)
        item == [id |-> id, name |-> nm.name, type |-> "weapon",
                 weapon_type |-> nm.subtype,
                 rarity |-> r, level_requirement |-> level_for_rarity(r, q + 2),
                 stats |-> [attack |-> atk,
                            strength_bonus |-> stat_bonus(r),
                            dexterity_bonus |-> stat_bonus(r),
                            constitution_bonus |-> maybe_bonus(r, q + 7),
                            critical_chance |-> crit_chance(r, q + 8),
                            critical_damage |-> crit_damage(r)],
                 special_effects |-> fx.effects,
                 value |-> gold_value(r, 100, 900, fx.pos),
                 durability |-> RandInt(fx.pos + 1, 70, 180),
                 crafting |-> [recipe_id |-> RCP \o id, materials |-> cm.mats],
                 shop_availability |-> shops_for("weapon", r),
                 image |-> img_path(<<"w","e","a","p","o","n","s">>, id)]
    IN  [item |-> item, used |-> nm.used, pos |-> cm.pos, ok |-> TRUE,
         tries |-> nm.tries, duplicate |-> nm.duplicate, redraws |-> 0]

\* The variant that samples weapon_type independently of the name core and
\* checks only that the name holds some weapon token.
weapon_item_independent_type(used, p) ==
    LET w == weapon_record(used, p)
        low == Lower(w.item.name)
    IN  [w EXCEPT !.item.weapon_type = Choice(p, WEAPON_NAME_CORES).wtype,
                  !.ok = AnyTokIn(low, WEAPON_TOKENS_FLAT)]

weapon_item(used, p) ==
    LET w == weapon_record(used, p)
        low == Lower(w.item.name)
    IN  [w EXCEPT !.ok = /\ AnyTokIn(low, WEAPON_TOKENS_FLAT)
                         /\ AnyTokIn(low, TYPE_TO_WEAPON_TOKENS(w.item.weapon_type))]

name_armor(used, p) ==
    LET base == Choice(p, PFX_COMMON) \o <<" ">> \o Choice(p + 1, armor_cores)
    IN  unique_name(base, TRUE, TRUE, used, p + 2)

\* The defensive retry of armor_item: nm is the name drawn last, tries the
\* re-draws made so far.
RECURSIVE armor_retry_one_more(_, _)
armor_retry_one_more(nm, tries) ==
    IF ~AnyTokIn(Lower(nm.name), ARMOR_TOKENS) /\ tries <= ArmorRetries
    THEN armor_retry_one_more(name_armor(nm.used, nm.pos), tries + 1)
    ELSE [nm |-> nm, redraws |-> tries]

RECURSIVE armor_retry(_, _)
armor_retry(nm, tries) ==
    IF ~AnyTokIn(Lower(nm.name), ARMOR_TOKENS) /\ tries < ArmorRetries
    THEN armor_retry(name_armor(nm.used, nm.pos), tries + 1)
    ELSE [nm |-> nm, redraws |-> tries]

\* The four elemental resistances, drawn in the order of ELEMENTS.
RECURSIVE elem_res_all(_, _, _)
elem_res_all(r, k, p) ==
    IF k > Len(ELEMENTS) THEN [res |-> <<>>, pos |-> p]
    ELSE LET x == elem_res(r, p)
             rest == elem_res_all(r, k + 1, x.pos)
         IN  [res |-> <<x.val>> \o rest.res, pos |-> rest.pos]

armor_item(used, p) ==
    LET r == pick_rarity(p)
        rt == armor_retry(name_armor(used, p + 1), 0)
        nm == rt.nm
        id == to_id(nm.name)
        q == nm.pos
        base_def == RandInt(q, 12, 20)
        defense == RoundHalfEven(base_def * RARITY_MULT[r], 10) + RandInt(q + 1, 0, 3)
        res == elem_res_all(r, 1, q + 2)
        s == res.pos
        fx == maybe_effects(r, s + 8)
        cm == craft_mats(r, 3, 5, FALSE, fx.pos + 2)
        ac == RARITY_MULT[r] \div 10
        item == [id |-> id, name |-> nm.name, type |-> "armor",
                 armor_type |-> SUIT,
                 rarity |-> r, level_requirement |-> level_for_rarity(r, s),
                 stats |-> [defense |-> defense,
                            armor_class_bonus |-> IF ac < 3 THEN ac ELSE 3,
                            strength_bonus |-> maybe_bonus(r, s + 5),
                            dexterity_bonus |-> maybe_bonus(r, s + 6),
                            constitution_bonus |-> maybe_bonus(r, s + 7),
                            elemental_resistance |-> res.res],
                 special_effects |-> fx.effects,
                 value |-> gold_value(r, 120, 1800, fx.pos),
                 durability |-> RandInt(fx.pos + 1, 110, 190),
                 crafting |-> [recipe_id |-> RCP \o id, materials |-> cm.mats],
                 shop_availability |-> shops_for("armor", r),
                 image |-> img_path(<<"a","r","m","o","r">>, id)]
    IN  [item |-> item, used |-> nm.used, pos |-> cm.pos,
         ok |-> AnyTokIn(Lower(nm.name), ARMOR_TOKENS),
         tries |-> nm.tries, duplicate |-> nm.duplicate, redraws |-> rt.redraws]

name_accessory(used, p) ==
    LET c == Choice(p, ACCESSORY_NAME_CORES)
        base == Choice(p + 1, PFX_COMMON) \o <<" ">> \o c.core
        un == unique_name(base, TRUE, TRUE, used, p + 2)
    IN  [name |-> un.name, subtype |-> c.atype, used |-> un.used, pos |-> un.pos,
         tries |-> un.tries, duplicate |-> un.duplicate]

accessory_item(used, p) ==
    LET r == pick_rarity(p)
        nm == name_accessory(used, p + 1)
        id == to_id(nm.name)
        q == nm.pos
        m == RARITY_MULT[r]
        regen == RoundHalfEven(m, 10)
        fx == maybe_effects(r, q + 11)
        cm == craft_mats(r, 2, 3, FALSE, fx.pos + 2)
        item == [id |-> id, name |-> nm.name, type |-> "accessory",
                 accessory_type |-> nm.subtype,
                 rarity |-> r, level_requirement |-> level_for_rarity(r, q),
                 stats |-> [strength_bonus |-> maybe_bonus(r, q + 5),
                            dexterity_bonus |-> maybe_bonus(r, q + 6),
                            constitution_bonus |-> maybe_bonus(r, q + 7),
                            intelligence_bonus |-> maybe_bonus(r, q + 8),
                            wisdom_bonus |-> maybe_bonus(r, q + 9),
                            charisma_bonus |-> maybe_bonus(r, q + 10),
                            mana_regeneration |-> regen,
                            health_regeneration |-> IF regen - 1 > 0 THEN regen - 1 ELSE 0,
                            experience_bonus |->
                                IF r \in {"rare", "epic", "legendary"}
                                THEN (5 * m) \div 10 ELSE 0],
                 special_effects |-> fx.effects,
                 value |-> gold_value(r, 150, 1800, fx.pos),
                 durability |-> RandInt(fx.pos + 1, 40, 120),
                 crafting |-> [recipe_id |-> RCP \o id, materials |-> cm.mats],
                 shop_availability |-> shops_for("accessory", r),
                 image |-> img_path(<<"a","c","c","e","s","s","o","r","i","e","s">>, id)]
    IN  [item |-> item, used |-> nm.used, pos |-> cm.pos,
         ok |-> Contains(Lower(nm.name), nm.subtype),
         tries |-> nm.tries, duplicate |-> nm.duplicate, redraws |-> 0]

name_consumable(used, p) ==
    LET c == Choice(p, CONSUMABLE_TEMPLATES)
        un == unique_name(c.base, FALSE, FALSE, used, p + 1)
    IN  [name |-> un.name, kind |-> c.kind, used |-> un.used, pos |-> un.pos,
         tries |-> un.tries, duplicate |-> un.duplicate]

consumable_item(used, p) ==
    LET r == pick_rarity(p)
        nm == name_consumable(used, p + 1)
        id == to_id(nm.name)
        be == build_effect(nm.kind, r, nm.pos)
        cm == craft_mats(r, 2, 3, TRUE, be.pos + 1)
        item == [id |-> id, name |-> nm.name, type |-> "consumable",
                 consumable_type |-> POTION,
                 rarity |-> r, effect |-> be.eff,
                 stack_size |-> IF r \in {"common", "uncommon"} THEN 99 ELSE 10,
                 value |-> gold_value(r, 20, 400, be.pos),
                 crafting |-> [recipe_id |-> RCP \o id, materials |-> cm.mats],
                 shop_availability |-> shops_for("consumable", r),
                 image |-> img_path(<<"c","o","n","s","u","m","a","b","l","e","s">>, id)]
    IN  [item |-> item, used |-> nm.used, pos |-> cm.pos,
         ok |-> AnyTokIn(Lower(nm.name), CONSUMABLE_KEYWORDS),
         tries |-> nm.tries, duplicate |-> nm.duplicate, redraws |-> 0]

name_material(used, p) ==
    LET base == Choice(p, PFX_COMMON) \o <<" ">> \o Choice(p + 1, MATERIAL_CORES)
    IN  unique_name(base, FALSE, FALSE, used, p + 2)

\* Of the acquisition records only their types are kept; the values drawn for
\* their ids and rates are consumed in the program's order.
material_item(used, p) ==
    LET r == pick_material_rarity(p)
        nm == name_material(used, p + 1)
        id == to_id(nm.name)
        q == nm.pos
        mtype == Choice(q, MATERIAL_TYPES)
        drops == RandomLt(q + 4, 330)
        s == IF drops THEN q + 7 ELSE q + 5
        item == [id |-> id, name |-> nm.name, type |-> "crafting_material",
                 material_type |-> mtype,
                 rarity |-> r, stack_size |-> 999,
                 value |-> gold_value(r, 3, 45, s),
                 sources |-> <<"territory_income", "shop">>
                             \o (IF drops THEN <<"dungeon_drop">> ELSE <<>>),
                 image |-> img_path(<<"m","a","t","e","r","i","a","l","s">>, id)]
    IN  [item |-> item, used |-> nm.used, pos |-> s + 2,
         ok |-> AnyTokIn(Lower(nm.name), MATERIAL_TOKENS),
         tries |-> nm.tries, duplicate |-> nm.duplicate, redraws |-> 0]

\* ------------------------------------------------------------ orchestration
\* The category lists of the document, in the order generate builds them.
CategoryOrderSwapped == <<"armor", "weapons", "accessories", "consumables", "materials">>

CategoryOrder == <<"weapons", "armor", "accessories", "consumables", "materials">>

Categories == Range(CategoryOrder)

\* BUILDERS[c]()
BUILDERS(c, used, p) ==
    IF c = "weapons" THEN weapon_item(used, p)
    ELSE IF c = "armor" THEN armor_item(used, p)
    ELSE IF c = "accessories" THEN accessory_item(used, p)
    ELSE IF c = "consumables" THEN consumable_item(used, p)
    ELSE material_item(used, p)

EmptyLists == [c \in {"weapons", "armor", "accessories", "consumables", "materials"} |-> <<>>]

\* The OrderedDict generate returns, given the five lists.
Document(lists) ==
    [version |-> "1.0",
     categories |-> [weapons |-> lists["weapons"], armor |-> lists["armor"],
                     accessories |-> lists["accessories"],
                     consumables |-> lists["consumables"],
                     materials |-> lists["materials"],
                     rarity_multipliers |-> RARITY_MULT,
                     rarity_colors |-> RARITY_COLORS]]

NoLast == [category |-> "none", tries |-> 0, duplicate |-> FALSE, redraws |-> 0, ok |-> TRUE]
NoProbe == [op |-> "none"]

\* The position of category c in the order (0 when it is not in it).
OrderIndex(c) ==
    IF \E i \in DOMAIN CategoryOrder : CategoryOrder[i] = c
    THEN CHOOSE i \in DOMAIN CategoryOrder : CategoryOrder[i] = c
    ELSE 0

\* The process starts with the module imported: no name issued, the random
\* source seeded by the interpreter at an arbitrary point (position 0 of an
\* arbitrary cycle).
InitWith(cores) ==
    /\ cyc \in [0..(CycleLen - 1) -> StreamVals]
    /\ rngPos = 0
    /\ used_names = {}
    /\ armor_cores = cores
    /\ pc = "idle"
    /\ cfg = [seed |-> RNG_SEED, per_category |-> 0]
    /\ doc = EmptyLists
    /\ returned = <<>>
    /\ calls = 0
    /\ events = <<>>
    /\ used_at_start = {}
    /\ last = NoLast
    /\ probe = NoProbe

Init == InitWith(ARMOR_CORES)

\* generate(cfg), its first statement: random.seed(cfg.seed). The os.makedirs
\* that follows touches the file system only and is taken to succeed.
GenerateStart ==
    /\ pc = "idle"
    /\ probe.op = "none"
    /\ calls < MaxCalls
    /\ calls' = calls + 1
    /\ \E seed \in Seeds, n \in Counts :
         /\ cfg' = [seed |-> seed, per_category |-> n]
         /\ rngPos' = SeedPos(seed)
    /\ events' = <<"seed">>
    /\ doc' = EmptyLists
    /\ used_at_start' = used_names
    /\ last' = NoLast
    /\ pc' = CategoryOrder[1]
    /\ UNCHANGED <<cyc, used_names, armor_cores, returned, probe>>

\* for _ in range(cfg.per_category): the list of category c is not complete.
MoreToBuildOffByOne(c) == Len(doc[c]) <= cfg.per_category

MoreToBuild(c) == Len(doc[c]) < cfg.per_category

\* One pass of the list comprehension of category pc: a builder call. A
\* failed assertion leaves generate by the exception; the lists are lost.
CallBuilder ==
    /\ pc \in Categories
    /\ MoreToBuild(pc)
    /\ \E out \in {BUILDERS(pc, used_names, rngPos)} :
           /\ used_names' = out.used
           /\ rngPos' = out.pos % CycleLen
           /\ last' = [category |-> pc, tries |-> out.tries, duplicate |-> out.duplicate,
                       redraws |-> out.redraws, ok |-> out.ok]
           /\ IF out.ok
              THEN /\ doc' = [doc EXCEPT ![pc] = Append(@, out.item)]
                   /\ pc' = pc
              ELSE /\ doc' = EmptyLists
                   /\ pc' = "aborted"
    /\ events' = Append(events, pc)
    /\ UNCHANGED <<cyc, armor_cores, cfg, returned, calls, used_at_start, probe>>

\* The list comprehension of category pc is complete: on to the next list.
EndCategory ==
    /\ pc \in Categories
    /\ ~MoreToBuild(pc)
    /\ OrderIndex(pc) < Len(CategoryOrder)
    /\ pc' = CategoryOrder[OrderIndex(pc) + 1]
    /\ UNCHANGED <<cyc, rngPos, used_names, armor_cores, cfg, doc, returned, calls, events,
                   used_at_start, last, probe>>

\* return data
GenerateReturn ==
    /\ pc \in Categories
    /\ ~MoreToBuild(pc)
    /\ OrderIndex(pc) = Len(CategoryOrder)
    /\ returned' = Append(returned, [cfg |-> cfg, document |-> Document(doc),
                                     events |-> events,
                                     used_before |-> used_at_start,
                                     used_after |-> used_names])
    /\ pc' = "idle"
    /\ UNCHANGED <<cyc, rngPos, used_names, armor_cores, cfg, doc, calls, events,
                   used_at_start, last, probe>>

\* ------------------------------------------------- helpers called directly
\* A helper applied on its own, once, in a process that has not called generate.
Strings == UNION {[1..k -> Alphabet] : k \in 0..MaxLen}

\* to_id reads no state: it is applied from one initial state.
ApplyToId ==
    /\ pc = "idle" /\ returned = <<>> /\ probe.op = "none"
    /\ rngPos = 0 /\ \A i \in DOMAIN cyc : cyc[i] = 0
    /\ \E s \in Strings : probe' = [op |-> "to_id", in |-> s, out |-> to_id(s)]
    /\ UNCHANGED <<cyc, rngPos, used_names, armor_cores, pc, cfg, doc, returned, calls, events,
                   used_at_start, last>>

ApplyBuildEffect ==
    /\ pc = "idle" /\ returned = <<>> /\ probe.op = "none"
    /\ \E kind \in EFFECT_KINDS, r \in Range(RARITY_ORDER) :
         /\ probe' = [op |-> "build_effect", in |-> [kind |-> kind, rarity |-> r],
                      out |-> build_effect(kind, r, rngPos).eff]
    /\ UNCHANGED <<cyc, rngPos, used_names, armor_cores, pc, cfg, doc, returned, calls, events,
                   used_at_start, last>>

\* Bounds gold_value is called with: those of the five builders, and small ones.
GoldBounds ==
    {<<100, 900>>, <<120, 1800>>, <<150, 1800>>, <<20, 400>>, <<3, 45>>,
     <<0, 0>>, <<0, 3>>, <<1, 1>>, <<2, 3>>, <<5, 6>>}

\* level_for_rarity, stat_bonus and gold_value applied to every tier, from
\* every position of the random source: per tier, the set of results.
ApplyRarityModel ==
    /\ pc = "idle" /\ returned = <<>> /\ probe.op = "none"
    /\ \E b \in GoldBounds :
         probe' = [op |-> "rarity_model", in |-> [min_v |-> b[1], max_v |-> b[2]],
                   out |-> [levels |-> [r \in Range(RARITY_ORDER) |->
                                          {level_for_rarity(r, p) : p \in 0..(CycleLen - 1)}],
                            bonus |-> [r \in Range(RARITY_ORDER) |-> stat_bonus(r)],
                            gold |-> [r \in Range(RARITY_ORDER) |->
                                        {gold_value(r, b[1], b[2], p) : p \in 0..(CycleLen - 1)}]]]
    /\ UNCHANGED <<cyc, rngPos, used_names, armor_cores, pc, cfg, doc, returned, calls, events,
                   used_at_start, last>>

\* A base name and the names unique_name can form from it with the random
\* source of the model, next to a name of another base.
ProbeBase == <<"O","a","k"," ","A","x","e">>
DisambigValues == {(u * (MaxDisambig + 1)) \div Mille : u \in StreamVals}
NamePool ==
    {ProbeBase, <<"S","u","n"," ","B","o","w">>}
    \cup {ProbeBase \o SUFFIX_FLAVOR[i] : i \in DOMAIN SUFFIX_FLAVOR}
    \cup {ProbeBase \o <<" ">> \o Str(v) : v \in DisambigValues}

\* unique_name called on its own, with any part of NamePool already issued.
ApplyUniqueName ==
    /\ pc = "idle" /\ returned = <<>> /\ probe.op = "none"
    /\ \E used \in SUBSET NamePool, flavor \in BOOLEAN :
         probe' = [op |-> "unique_name",
                   in |-> [base |-> ProbeBase, allow |-> flavor, used |-> used],
                   out |-> unique_name(ProbeBase, flavor, flavor, used, rngPos)]
    /\ UNCHANGED <<cyc, rngPos, used_names, armor_cores, pc, cfg, doc, returned, calls, events,
                   used_at_start, last>>

\* The name cores of the five tables, each with its category and subtype.
LexiconEntries ==
    {[category |-> "weapons", core |-> e.core, subtype |-> e.wtype] :
        e \in Range(LEXICON_WEAPON_NAME_CORES)}
    \cup {[category |-> "armor", core |-> c, subtype |-> SUIT] : c \in Range(LEXICON_ARMOR_CORES)}
    \cup {[category |-> "accessories", core |-> e.core, subtype |-> e.atype] :
              e \in Range(LEXICON_ACCESSORY_NAME_CORES)}
    \cup {[category |-> "consumables", core |-> c, subtype |-> POTION] :
              c \in Range(LEXICON_CONSUMABLE_BASES)}
    \cup {[category |-> "materials", core |-> c, subtype |-> <<>>] :
              c \in Range(LEXICON_MATERIAL_CORES)}

\* The names the name_* function of the category can return for the core:
\* the base, the base with a flavor, the base with a number.
NamesOf(e) ==
    LET bases == IF e.category = "consumables" THEN {e.core}
                 ELSE {PFX_COMMON[i] \o <<" ">> \o e.core : i \in DOMAIN PFX_COMMON}
        flavored == IF e.category \in {"weapons", "armor", "accessories"}
                    THEN {b \o SUFFIX_FLAVOR[i] : b \in bases, i \in DOMAIN SUFFIX_FLAVOR}
                    ELSE {}
    IN  bases \cup flavored \cup {b \o <<" ">> \o Str(MaxDisambig) : b \in bases}

\* The closing assertion of the builder of the category, on the name.
final_assert(e, name) ==
    LET low == Lower(name)
    IN  IF e.category = "weapons"
        THEN /\ \E k \in DOMAIN LEXICON_TYPE_TO_WEAPON_TOKENS :
                  AnyTokIn(low, LEXICON_TYPE_TO_WEAPON_TOKENS[k].tokens)
             /\ AnyTokIn(low, LEXICON_TOKENS_OF(e.subtype))
        ELSE IF e.category = "armor" THEN AnyTokIn(low, LEXICON_ARMOR_TOKENS)
        ELSE IF e.category = "accessories" THEN Contains(low, e.subtype)
        ELSE IF e.category = "consumables" THEN AnyTokIn(low, CONSUMABLE_KEYWORDS)
        ELSE AnyTokIn(low, LEXICON_MATERIAL_TOKENS)

\* The closing assertion applied to a name of any core of the tables. It reads
\* no state: it is applied from one initial state.
ApplyFinalAssert ==
    /\ pc = "idle" /\ returned = <<>> /\ probe.op = "none"
    /\ rngPos = 0 /\ \A i \in DOMAIN cyc : cyc[i] = 0
    /\ \E e \in LexiconEntries : \E name \in NamesOf(e) :
         probe' = [op |-> "final_assert", in |-> [entry |-> e, name |-> name],
                   out |-> final_assert(e, name)]
    /\ UNCHANGED <<cyc, rngPos, used_names, armor_cores, pc, cfg, doc, returned, calls, events,
                   used_at_start, last>>

\* maybe_effects called on its own, for any tier.
ApplyMaybeEffects ==
    /\ pc = "idle" /\ returned = <<>> /\ probe.op = "none"
    /\ \E r \in Range(RARITY_ORDER) :
         probe' = [op |-> "maybe_effects", in |-> [rarity |-> r],
                   out |-> maybe_effects(r, rngPos).effects]
    /\ UNCHANGED <<cyc, rngPos, used_names, armor_cores, pc, cfg, doc, returned, calls, events,
                   used_at_start, last>>

Next ==
    \/ GenerateStart
    \/ CallBuilder
    \/ EndCategory
    \/ GenerateReturn
    \/ ApplyToId
    \/ ApplyBuildEffect
    \/ ApplyRarityModel
    \/ ApplyUniqueName
    \/ ApplyMaybeEffects
    \/ ApplyFinalAssert

Spec == Init /\ [][Next]_vars

\* The same process with an ARMOR_CORES table that holds an unregistered core.
InitTweak == InitWith(ARMOR_CORES_UNREGISTERED)

SpecTweak == InitTweak /\ [][Next]_vars

\* ------------------------------------------------------------------- claims
CategoryNames == {"weapons", "armor", "accessories", "consumables", "materials"}
Tiers == {"common", "uncommon", "rare", "epic", "legendary"}
GearCategories == {"weapons", "armor", "accessories"}

\* The ids of a returned document, list after list.
IdsOf(items) == [i \in DOMAIN items |-> items[i].id]
DocIds(d) ==
    IdsOf(d.categories.weapons) \o IdsOf(d.categories.armor)
    \o IdsOf(d.categories.accessories) \o IdsOf(d.categories.consumables)
    \o IdsOf(d.categories.materials)

NoRepeat(s) == \A i, j \in DOMAIN s : i # j => s[i] # s[j]

\* C1: no two items of a document that generate has returned have the same id.
C1_UniqueIds ==
    \A k \in DOMAIN returned : NoRepeat(DocIds(returned[k].document))

\* C2: two generate calls with equal seed and equal per-category count return
\* identical documents.
C2_Deterministic ==
    \A i, j \in DOMAIN returned :
        returned[i].cfg = returned[j].cfg => returned[i].document = returned[j].document

\* The tokens the name of an item of category c must hold one of.
SubtypeTokens(c, item) ==
    IF c = "weapons"
    THEN (IF item.weapon_type = <<"a","x","e">>
          THEN <<<<"a","x","e">>, <<"w","a","r","a","x","e">>>>
          ELSE IF item.weapon_type = <<"b","o","w">> THEN <<<<"b","o","w">>>> ELSE <<>>)
    ELSE IF c = "accessories" THEN <<item.accessory_type>>
    ELSE IF c = "armor" THEN ARMOR_TOKENS
    ELSE IF c = "consumables" THEN CONSUMABLE_KEYWORDS
    ELSE MATERIAL_TOKENS

NameHoldsToken(c, item) ==
    \E k \in DOMAIN SubtypeTokens(c, item) :
        Contains(Lower(item.name), SubtypeTokens(c, item)[k])

\* The last character of the name is a digit: it got a disambiguator.
Disambiguated(name) == name # <<>> /\ name[Len(name)] \in Range(Digits)

\* A builder has returned an item to the running generate call; NewItem is
\* that item, the last of its list. Every item of a document is, in the state
\* after the builder call that made it, the NewItem.
Built == last.category \in CategoryNames /\ last.ok
NewItem == doc[last.category][Len(doc[last.category])]

\* C3: the lowercased name of every item a builder returns holds a token of
\* the item's subtype (weapons, accessories) or of its category vocabulary
\* (armor, consumables, materials), disambiguated names included.
C3_NameSubtypeConsistent ==
    Built => NameHoldsToken(last.category, NewItem)

C3_Witness ==
    /\ \E i \in DOMAIN doc["weapons"] :
         /\ Disambiguated(doc["weapons"][i].name)
         /\ doc["weapons"][i].weapon_type = <<"a","x","e">>
    /\ Built /\ last.category = "accessories" /\ last.tries > 0
    /\ Disambiguated(NewItem.name)

\* What a generate call with per-category count n does, in order: it seeds,
\* then calls each builder n times, category after category.
Repeat(x, n) == [i \in 1..n |-> x]
ExpectedEvents(n) ==
    <<"seed">> \o Repeat("weapons", n) \o Repeat("armor", n) \o Repeat("accessories", n)
    \o Repeat("consumables", n) \o Repeat("materials", n)

IsPrefix(s, t) == Len(s) <= Len(t) /\ SubSeq(t, 1, Len(s)) = s

\* C4: a generate call seeds the random source once, before any builder, then
\* calls the builders category after category in the order weapons, armor,
\* accessories, consumables, materials, each exactly N times; each list of the
\* returned document has exactly N items.
C4_SeedOnceFixedOrder ==
    /\ calls > 0 => /\ events # <<>>
                    /\ IsPrefix(events, ExpectedEvents(cfg.per_category))
    /\ \A k \in DOMAIN returned :
         LET rec == returned[k]
         IN  /\ rec.events = ExpectedEvents(rec.cfg.per_category)
             /\ \A c \in CategoryNames :
                  Len(rec.document.categories[c]) = rec.cfg.per_category

C4_Witness ==
    \E k \in DOMAIN returned :
        /\ returned[k].cfg.per_category >= 2
        /\ Len(returned[k].document.categories.materials) >= 2

\* C5: every generate call starts from an empty used-names set.
C5_UsedNamesResetOnSeed ==
    pc \in Categories => used_at_start = {}

\* C6: the armor builder re-draws a name that fails the armor vocabulary at
\* most 5 times; when the name still fails, the builder raises instead of
\* returning the item and generate returns no document for the call.
C6_ArmorRetryThenAbort ==
    /\ last.category = "armor" =>
         /\ last.redraws <= 5
         /\ ~last.ok => last.redraws = 5 /\ pc = "aborted"
    /\ pc = "aborted" => /\ ~last.ok
                         /\ doc = EmptyLists
                         /\ Len(returned) = calls - 1
    /\ pc # "aborted" => Len(returned) \in {calls, calls - 1}
    /\ Built /\ last.category = "armor" => NameHoldsToken("armor", NewItem)

C6_Witness ==
    /\ pc = "aborted"
    /\ last.category = "armor"
    /\ last.redraws = 5
    /\ calls = 2

\* A call whose first armor name failed and whose re-drawn name passed.
C6_WitnessRecovered ==
    /\ pc = "armor"
    /\ last.category = "armor" /\ last.ok /\ last.redraws > 0

\* C7: a generate call with per_category = 0 returns a document whose five
\* lists are empty and whose rarity_multipliers and rarity_colors have an
\* entry for each of the 5 tiers; it calls no builder and leaves the used-names
\* set as it found it.
C7_ZeroCount ==
    \A k \in DOMAIN returned :
        LET rec == returned[k]
        IN  rec.cfg.per_category = 0 =>
              /\ \A c \in CategoryNames : rec.document.categories[c] = <<>>
              /\ DOMAIN rec.document.categories.rarity_multipliers = Tiers
              /\ DOMAIN rec.document.categories.rarity_colors = Tiers
              /\ rec.events = <<"seed">>
              /\ rec.used_after = rec.used_before

C7_Witness ==
    \E k \in DOMAIN returned :
        /\ returned[k].cfg.per_category = 0
        /\ returned[k].used_before # {}

NonZero(f) == {a \in DOMAIN f : f[a] # 0}
AllStatKeys == {"health", "mana", "strength", "dexterity", "constitution",
                "intelligence", "wisdom", "charisma"}
SixCore == AllStatKeys \ {"health", "mana"}

\* What C8 says of an effect record of the given kind.
EffectSchemaOK(eff) ==
    LET sa == eff.stats_affected
    IN  /\ DOMAIN sa = AllStatKeys
        /\ eff.type = "heal" =>
             NonZero(sa) = {"health"} /\ sa["health"] = eff.value
        /\ eff.type = "mana_restore" =>
             NonZero(sa) = {"mana"} /\ sa["mana"] = eff.value
        /\ eff.type = "stat_boost" =>
             /\ Cardinality(NonZero(sa)) = 1
             /\ NonZero(sa) \subseteq SixCore
        /\ eff.type = "speed_boost" =>
             NonZero(sa) = {} /\ eff.value > 0 /\ eff.duration > 0

\* C8: build_effect returns, for every kind and tier, a stats_affected block
\* with exactly the 8 attribute keys whose non-zero entries match the kind;
\* so does the effect of every consumable the builder returns.
C8_EffectSchema ==
    /\ probe.op = "build_effect" =>
         /\ probe.out.type = probe.in.kind
         /\ EffectSchemaOK(probe.out)
    /\ Built /\ last.category = "consumables" => EffectSchemaOK(NewItem.effect)

C8_Witness ==
    /\ probe.op = "build_effect"
    /\ probe.in.kind = "stat_boost"
    /\ probe.in.rarity = "epic"
    /\ probe.out.stats_affected["charisma"] = 4

C8_WitnessItem ==
    Built /\ last.category = "consumables" /\ NewItem.effect.type = "speed_boost"

\* Only a-z, 0-9 and single underscores, none leading or trailing.
IsSlug(s) ==
    /\ \A i \in DOMAIN s : s[i] \in SlugChars \cup {"_"}
    /\ \A i \in 1..(Len(s) - 1) : ~(s[i] = "_" /\ s[i + 1] = "_")
    /\ s # <<>> => s[1] # "_" /\ s[Len(s)] # "_"

HasRecipeId(item) ==
    /\ "crafting" \in DOMAIN item
    /\ item.crafting.recipe_id = <<"r","c","p","_">> \o item.id

\* C9 as stated: every item of the document, the materials included, has
\* id = to_id(name) and crafting.recipe_id = "rcp_" + id.
C9_EveryItemHasRecipeId ==
    Built => NewItem.id = to_id(NewItem.name) /\ HasRecipeId(NewItem)

\* C9, amended: to_id(name) holds only lowercase letters, digits and single
\* underscores, none leading or trailing, and to_id(to_id(name)) = to_id(name);
\* every item has id = to_id(name); every weapon, armor, accessory and
\* consumable has crafting.recipe_id = "rcp_" + id, and a material has no
\* crafting block.
C9_IdDerivation ==
    /\ probe.op = "to_id" => IsSlug(probe.out) /\ to_id(probe.out) = probe.out
    /\ Built =>
         /\ NewItem.id = to_id(NewItem.name)
         /\ IsSlug(NewItem.id)
         /\ last.category # "materials" => HasRecipeId(NewItem)
         /\ last.category = "materials" => "crafting" \notin DOMAIN NewItem

C9_Witness ==
    /\ probe.op = "to_id"
    /\ probe.in = <<" ", "A", "'", "_">>

C9_WitnessItem ==
    /\ \E i \in DOMAIN doc["armor"] :
         /\ Disambiguated(doc["armor"][i].name)
         /\ "_" \in Range(doc["armor"][i].id)
    /\ Built /\ last.category = "materials"

SetMin(S) == CHOOSE x \in S : \A y \in S : x <= y
SetMax(S) == CHOOSE x \in S : \A y \in S : x >= y
Band(r) ==
    [common |-> 1..4, uncommon |-> 5..8, rare |-> 9..12, epic |-> 13..17,
     legendary |-> 18..20][r]
Before(a, b) ==
    \E i, j \in 1..5 : i < j /\ RARITY_ORDER[i] = a /\ RARITY_ORDER[j] = b

\* C10: for tiers a before b: every level of a is below every level of b (the
\* bands do not overlap), stat_bonus(a) <= stat_bonus(b), and the lowest and
\* the highest gold_value of a are <= those of b; every gold value is in
\* [min_v, max_v + min_v].
C10_RarityMonotone ==
    probe.op = "rarity_model" =>
      LET o == probe.out
          lo == probe.in.min_v
          hi == probe.in.max_v
      IN  /\ \A r \in Tiers : o.levels[r] \subseteq Band(r)
          /\ \A r \in Tiers : \A v \in o.gold[r] : lo <= v /\ v <= hi + lo
          /\ \A a, b \in Tiers : Before(a, b) =>
               /\ \A x \in o.levels[a], y \in o.levels[b] : x < y
               /\ o.bonus[a] <= o.bonus[b]
               /\ SetMin(o.gold[a]) <= SetMin(o.gold[b])
               /\ SetMax(o.gold[a]) <= SetMax(o.gold[b])

C10_Witness ==
    /\ probe.op = "rarity_model"
    /\ probe.in = [min_v |-> 3, max_v |-> 45]
    /\ 8 \in probe.out.levels["uncommon"]
    /\ 9 \in probe.out.levels["rare"]
    /\ {3, 6} \subseteq probe.out.gold["common"]
    /\ {45, 48} \subseteq probe.out.gold["legendary"]
    /\ probe.out.bonus["rare"] = 2

\* Decimal numerals of 0..999, as str() writes them.
IsNumeral(s) ==
    /\ Len(s) \in 1..3
    /\ \A i \in DOMAIN s : s[i] \in {"0","1","2","3","4","5","6","7","8","9"}
    /\ Len(s) > 1 => s[1] # "0"

\* name is '<base> <number 0..999>'.
IsReplacement(base, name) ==
    /\ Len(name) > Len(base) + 1
    /\ SubSeq(name, 1, Len(base) + 1) = base \o <<" ">>
    /\ IsNumeral(SubSeq(name, Len(base) + 2, Len(name)))

FirstCandidates(base, allow) ==
    IF allow THEN {base, base \o <<" ","o","f"," ","D","a","w","n">>,
                   base \o <<" ","o","f"," ","D","u","s","k">>}
    ELSE {base}

\* What C11 says of one call of unique_name, in the state after it.
UniqueNameCallOK ==
    probe.op = "unique_name" =>
      LET i == probe.in
          o == probe.out
      IN  /\ o.tries \in 0..20
          /\ o.tries = 0 => o.name \in FirstCandidates(i.base, i.allow) /\ o.name \notin i.used
          /\ o.tries > 0 => /\ IsReplacement(i.base, o.name)
                             /\ FirstCandidates(i.base, i.allow) \cap i.used # {}
          /\ o.tries < 20 => o.name \notin i.used
          /\ o.duplicate = (o.name \in i.used)
          /\ o.used = i.used \cup {o.name}

\* The same of the unique_name call of the builder that ran last.
BuilderNameOK ==
    /\ last.tries \in 0..20
    /\ last.duplicate => last.tries = 20
    /\ Built => /\ NewItem.name \in used_names
                 /\ last.tries > 0 <=> Disambiguated(NewItem.name)

\* C11: when the first candidate is in the used-names set, unique_name draws
\* replacements '<base> <number 0..999>', at most 20, and stops at the first
\* that is not in the set; when all 20 collide it returns the latest although
\* it is a duplicate, without raising; the loop ends, the name returned is in
\* the set afterwards, and no step of the program removes a name from the set.
C11_CollisionLoop ==
    [][/\ used_names \subseteq used_names'
       /\ UniqueNameCallOK'
       /\ BuilderNameOK']_vars

C11_Witness ==
    /\ probe.op = "unique_name"
    /\ probe.out.tries = 20
    /\ probe.out.duplicate
    /\ probe.in.allow

\* A builder call that stopped at a replacement that was free.
C11_WitnessFree ==
    /\ Built /\ last.tries \in 1..19 /\ ~last.duplicate

\* A builder call that accepted a duplicate after 20 replacements.
C11_WitnessBuilder ==
    /\ Built /\ last.tries = 20 /\ last.duplicate

\* The lengths C12 allows the effect list of tier r.
EffectCounts(r) ==
    IF r \in {"epic", "legendary"} THEN {2}
    ELSE IF r = "rare" THEN {1}
    ELSE {0, 1}

\* C12: maybe_effects returns exactly 2 effects for epic and legendary,
\* exactly 1 for rare and 0 or 1 for common and uncommon, never more than 2;
\* the special_effects of every weapon, armor and accessory obeys this for the
\* rarity of the item.
C12_EffectCount ==
    /\ probe.op = "maybe_effects" =>
         /\ probe.in.rarity \in Tiers
         /\ Len(probe.out) \in EffectCounts(probe.in.rarity)
         /\ Len(probe.out) <= 2
    /\ Built /\ last.category \in GearCategories =>
         /\ NewItem.rarity \in Tiers
         /\ Len(NewItem.special_effects) \in EffectCounts(NewItem.rarity)
         /\ Len(NewItem.special_effects) <= 2

C12_Witness ==
    /\ probe.op = "maybe_effects"
    /\ probe.in.rarity = "common"
    /\ Len(probe.out) = 0

C12_WitnessOne ==
    /\ probe.op = "maybe_effects"
    /\ probe.in.rarity = "uncommon"
    /\ Len(probe.out) = 1

C12_WitnessItem ==
    /\ Built /\ last.category = "armor"
    /\ NewItem.rarity = "legendary"
    /\ Len(NewItem.special_effects) = 2
    /\ \E i \in DOMAIN doc["weapons"] :
         doc["weapons"][i].rarity = "common" /\ doc["weapons"][i].special_effects = <<>>

C12_WitnessRare ==
    /\ probe.op = "maybe_effects"
    /\ probe.in.rarity = "rare"
    /\ Len(probe.out) = 1

\* The core of the entry is registered as a token of its subtype or category.
Registered(e) ==
    LET low == Lower(e.core)
    IN  IF e.category = "weapons" THEN low \in Range(LEXICON_TOKENS_OF(e.subtype))
        ELSE IF e.category = "armor"
        THEN \E k \in DOMAIN LEXICON_ARMOR_TOKENS : Contains(low, LEXICON_ARMOR_TOKENS[k])
        ELSE IF e.category = "accessories" THEN low = e.subtype
        ELSE IF e.category = "consumables"
        THEN Contains(low, <<"p","o","t","i","o","n">>) \/ Contains(low, <<"e","l","i","x","i","r">>)
        ELSE low \in Range(LEXICON_MATERIAL_TOKENS)

C13_WitnessAssert ==
    /\ probe.op = "final_assert"
    /\ probe.in.entry.category = "weapons"
    /\ probe.in.entry.core = <<"G","l","a","i","v","e">>
    /\ probe.in.entry.subtype = <<"p","o","l","e","a","r","m">>
    /\ Disambiguated(probe.in.name)

====
